---- MODULE Spec2Model ----
(***************************************************************************)
(* Model of scripts/extract.py: the deterministic HTML table parser        *)
(* parse_adverse_reactions_table with its per-cell normalisation, and the  *)
(* module-level batch loop over drug label records.                        *)
(*                                                                         *)
(* A text is a sequence of one-character strings.  A parsed float is the   *)
(* exact decimal [n |-> numerator, d |-> power of ten], in lowest form, so *)
(* that float("1.0") and float("1") are the same value; for the short      *)
(* numerals of the model decimal-to-double conversion is injective.        *)
(***************************************************************************)
EXTENDS Integers, Sequences, FiniteSets, TLC

VARIABLES
    \* per-cell normalisation (body of the zip loop, extract.py 145-157)
    cell, text, value, cpc,
    \* parse_adverse_reactions_table (extract.py 106-163)
    html, pc, header_row, headers, data_rows, tr, exc, result,
    \* module batch loop (extract.py 166-220)
    file, drug_labels, k, cnt, drug_info, drug_label, bpc, stopped, written

cellVars  == <<cell, text, value, cpc>>
tableVars == <<html, pc, header_row, headers, data_rows, tr, exc, result>>
batchVars == <<file, drug_labels, k, cnt, drug_info, drug_label, bpc, stopped, written>>
vars == <<cellVars, tableVars, batchVars>>

\* ------------------------------------------------------------------ bounds
MaxLen == 4          \* longest raw cell text of the cell specification
MaxCells == 2        \* most cells in one table row
MaxRows == 2         \* most rows in the body section
MaxHeadRows == 1     \* most rows in the header section
NumFiles == 2        \* entries of data_files
MaxRecords == 27     \* most records in one file's 'results'

\* ------------------------------------------------------- texts and floats
Chars == {"0", "1", "5", ".", "<", "%", " ", "-"}
Digits == <<"0", "1", "2", "3", "4", "5", "6", "7", "8", "9">>

IsDigit(c) == \E i \in 1..10 : Digits[i] = c
IsSpace(c) == c = " "
DigitVal(c) == (CHOOSE i \in 1..10 : Digits[i] = c) - 1

RECURSIVE Pow10(_)
Pow10(e) == IF e = 0 THEN 1 ELSE 10 * Pow10(e - 1)

\* str.strip(): drop leading and trailing whitespace
RECURSIVE lstrip(_)
lstrip(s) == IF s # <<>> /\ IsSpace(Head(s)) THEN lstrip(Tail(s)) ELSE s

RECURSIVE rstrip(_)
rstrip(s) ==
    IF s # <<>> /\ IsSpace(s[Len(s)]) THEN rstrip(SubSeq(s, 1, Len(s) - 1)) ELSE s

strip(s) == rstrip(lstrip(s))

\* cell.get_text(strip=True) of a cell holding one text node
get_text(c) == strip(c)

\* value of a run of decimal digits
RECURSIVE DecVal(_)
DecVal(ds) ==
    IF ds = <<>> THEN 0
    ELSE 10 * DecVal(SubSeq(ds, 1, Len(ds) - 1)) + DigitVal(ds[Len(ds)])

RECURSIVE Reduce(_, _)
Reduce(n, d) ==
    IF d > 1 /\ n % 10 = 0 THEN Reduce(n \div 10, d \div 10) ELSE [n |-> n, d |-> d]

\* float(g) for g = digits or digits "." digits
float(g) ==
    LET dots == {i \in 1..Len(g) : g[i] = "."}
        dot  == IF dots = {} THEN Len(g) + 1 ELSE CHOOSE i \in dots : TRUE
        ip   == SubSeq(g, 1, dot - 1)
        fp   == SubSeq(g, dot + 1, Len(g))
    IN  Reduce(DecVal(ip) * Pow10(Len(fp)) + DecVal(fp), Pow10(Len(fp)))

\* first position at or after i that does not hold a digit (greedy \d+)
RECURSIVE DigitsEnd(_, _)
DigitsEnd(s, i) == IF i <= Len(s) /\ IsDigit(s[i]) THEN DigitsEnd(s, i + 1) ELSE i

\* first position at or after i that does not hold whitespace (greedy \s*)
RECURSIVE SpaceEnd(_, _)
SpaceEnd(s, i) == IF i <= Len(s) /\ IsSpace(s[i]) THEN SpaceEnd(s, i + 1) ELSE i

\* NumPrefix with the optional '<' left out of the pattern
NumPrefix_nolt(s) ==
    LET p1 == DigitsEnd(s, 1)
        q  == DigitsEnd(s, p1 + 1)
        p2 == IF p1 <= Len(s) /\ s[p1] = "." /\ q > p1 + 1 THEN q ELSE p1
    IN  [ok |-> p1 > 1, from |-> 1, to |-> p2]

\* the common prefix  ^<?(\d+(?:\.\d+)?)  of both patterns:
\* [ok, from, to) delimits group 1 when ok
NumPrefix(s) ==
    LET p0 == IF s # <<>> /\ s[1] = "<" THEN 2 ELSE 1
        p1 == DigitsEnd(s, p0)
        q  == DigitsEnd(s, p1 + 1)
        p2 == IF p1 <= Len(s) /\ s[p1] = "." /\ q > p1 + 1 THEN q ELSE p1
    IN  [ok |-> p1 > p0, from |-> p0, to |-> p2]

NoMatch == [ok |-> FALSE, group |-> <<>>]

\* pct_match with the closing '$' left out of the pattern
pct_match_open(s) ==
    LET m  == NumPrefix(s)
        p3 == SpaceEnd(s, m.to)
    IN  IF m.ok /\ p3 <= Len(s) /\ s[p3] = "%"
        THEN [ok |-> TRUE, group |-> SubSeq(s, m.from, m.to - 1)]
        ELSE NoMatch

\* re.match(r'^<?(\d+(?:\.\d+)?)\s*%$', text)
pct_match(s) ==
    LET m  == NumPrefix(s)
        p3 == SpaceEnd(s, m.to)
    IN  IF m.ok /\ p3 = Len(s) /\ s[p3] = "%"
        THEN [ok |-> TRUE, group |-> SubSeq(s, m.from, m.to - 1)]
        ELSE NoMatch

\* re.match(r'^<?(\d+(?:\.\d+)?)$', text)
num_match(s) ==
    LET m == NumPrefix(s)
    IN  IF m.ok /\ m.to = Len(s) + 1
        THEN [ok |-> TRUE, group |-> SubSeq(s, m.from, m.to - 1)]
        ELSE NoMatch

Number(f) == [kind |-> "Number", n |-> f.n, d |-> f.d, s |-> <<>>]
Text(s)   == [kind |-> "Text", n |-> 0, d |-> 1, s |-> s]
NoValue   == [kind |-> "None", n |-> 0, d |-> 1, s |-> <<>>]

\* the value stored in row_dict[header] for a cell text (lines 146-157)
normalize(c) ==
    LET t == get_text(c)
    IN  IF pct_match(t).ok THEN Number(float(pct_match(t).group))
        ELSE IF num_match(t).ok THEN Number(float(num_match(t).group))
        ELSE Text(t)


\* ------------------------------------------------- idle values of variables
CellIdle ==
    /\ cell = <<>> /\ text = <<>> /\ value = NoValue /\ cpc = "idle"

NoTable == [table |-> FALSE, thead |-> FALSE, head_rows |-> <<>>,
            tbody |-> FALSE, body_rows |-> <<>>]
NoResult == [ok |-> FALSE, columns |-> <<>>, data |-> <<>>]
NoRow == <<"none", 0>>

TableIdle ==
    /\ html = NoTable /\ pc = "idle" /\ header_row = NoRow /\ headers = <<>>
    /\ data_rows = <<>> /\ tr = 0 /\ exc = "none" /\ result = NoResult

NoLabel == [generic_name |-> FALSE, id |-> FALSE, fields |-> FALSE,
            llm |-> "none", openfda_ids |-> FALSE]

BatchIdle ==
    /\ file = 0 /\ drug_labels = 0 /\ k = 0 /\ cnt = 0 /\ drug_info = <<>>
    /\ drug_label = NoLabel /\ bpc = "idle" /\ stopped = FALSE
    /\ written = <<>>

\* ------------------------------------------------ cell normalisation steps
CellTexts == UNION {[1..n -> Chars] : n \in 0..MaxLen}

InitCell ==
    /\ cell \in CellTexts
    /\ text = <<>> /\ value = NoValue /\ cpc = "get_text"
    /\ TableIdle /\ BatchIdle

\* line 146: text = cell.get_text(strip=True)
CellGetText ==
    /\ cpc = "get_text"
    /\ text' = get_text(cell)
    /\ cpc' = "pct"
    /\ UNCHANGED <<cell, value, tableVars, batchVars>>

\* lines 148-150: percentage pattern, else fall to the bare-number pattern
CellPct ==
    /\ cpc = "pct"
    /\ IF pct_match(text).ok
       THEN /\ value' = Number(float(pct_match(text).group))
            /\ cpc' = "done"
       ELSE /\ value' = value
            /\ cpc' = "num"
    /\ UNCHANGED <<cell, text, tableVars, batchVars>>

\* lines 153-157: bare-number pattern, else the text itself
CellNum ==
    /\ cpc = "num"
    /\ value' = IF num_match(text).ok
                THEN Number(float(num_match(text).group))
                ELSE Text(text)
    /\ cpc' = "done"
    /\ UNCHANGED <<cell, text, tableVars, batchVars>>

NextCell == CellGetText \/ CellPct \/ CellNum

SpecCell == InitCell /\ [][NextCell]_vars

\* ------------------------------------------- parse_adverse_reactions_table
TableCells ==
    { [tag |-> "td", text |-> <<" ", "A">>],
      [tag |-> "td", text |-> <<"<", "1", " ", "%">>],
      [tag |-> "th", text |-> <<"B">>] }

TableRows == UNION {[1..n -> TableCells] : n \in 0..MaxCells}
HeadSections == UNION {[1..n -> TableRows] : n \in 0..MaxHeadRows}
BodySections == UNION {[1..n -> TableRows] : n \in 0..MaxRows}

\* the documents: no table at all, or a table whose header section and body
\* section are each absent or present with their rows
Documents ==
    {NoTable} \cup
    { [table |-> TRUE, thead |-> th, head_rows |-> hr, tbody |-> tb, body_rows |-> br] :
        th \in BOOLEAN, hr \in HeadSections, tb \in BOOLEAN, br \in BodySections }

WellFormed(h) ==
    /\ (~h.thead => h.head_rows = <<>>)
    /\ (~h.tbody => h.body_rows = <<>>)

\* find_table that takes any document to hold a table
find_table_any(h) == TRUE

\* soup.find('table')
find_table(h) == h.table

\* row.find_all(tags): the cells of a row with one of the tags, in order
find_all(row, tags) == SelectSeq(row, LAMBDA c : c.tag \in tags)

\* select_header that never looks at the header section
select_header_body(h) ==
    IF ~h.tbody THEN <<"error", 0>>
    ELSE IF h.body_rows = <<>> THEN NoRow
    ELSE <<"tbody", 1>>

\* lines 129-132: the row chosen as header_row, "error" when
\* table.find('tbody') is None and .find is called on it
select_header(h) ==
    IF h.thead /\ h.head_rows # <<>> THEN <<"thead", 1>>
    ELSE IF ~h.tbody THEN <<"error", 0>>
    ELSE IF h.body_rows = <<>> THEN NoRow
    ELSE <<"tbody", 1>>

row_at(h, r) == IF r[1] = "thead" THEN h.head_rows[r[2]] ELSE h.body_rows[r[2]]

\* line 133
header_texts(row) ==
    LET cs == find_all(row, {"th", "td"})
    IN  [i \in 1..Len(cs) |-> get_text(cs[i].text)]

\* row_kept that skips only the rows with too many cells
row_kept_le(cells, hs) == Len(cells) <= Len(hs)

\* line 142: the row is processed only when it has as many td as headers
row_kept(cells, hs) == Len(cells) = Len(hs)

\* lines 144-157: row_dict after the zip loop; a later assignment to the
\* same key replaces the earlier one
RECURSIVE row_dict(_, _, _)
row_dict(hs, cells, n) ==
    IF n = 0 THEN [x \in {} |-> NoValue]
    ELSE LET d == row_dict(hs, cells, n - 1)
         IN  [x \in (DOMAIN d) \cup {hs[n]} |->
                 IF x = hs[n] THEN normalize(cells[n].text) ELSE d[x]]

Min(a, b) == IF a < b THEN a ELSE b

InitTable ==
    /\ html \in Documents
    /\ WellFormed(html)
    /\ pc = "start" /\ header_row = NoRow /\ headers = <<>>
    /\ data_rows = <<>> /\ tr = 0 /\ exc = "none" /\ result = NoResult
    /\ CellIdle /\ BatchIdle

\* lines 123-126
FindTable ==
    /\ pc = "start"
    /\ IF find_table(html)
       THEN pc' = "header" /\ exc' = exc
       ELSE pc' = "raised" /\ exc' = "ValueError"
    /\ UNCHANGED <<html, header_row, headers, data_rows, tr, result, cellVars, batchVars>>

\* lines 128-133
SelectHeader ==
    /\ pc = "header"
    /\ LET r == select_header(html)
       IN  IF r[1] \in {"error", "none"}
           THEN /\ pc' = "raised" /\ exc' = "AttributeError"
                /\ UNCHANGED <<header_row, headers>>
           ELSE /\ header_row' = r
                /\ headers' = header_texts(row_at(html, r))
                /\ pc' = "body" /\ exc' = exc
    /\ UNCHANGED <<html, data_rows, tr, result, cellVars, batchVars>>

\* lines 136-137: data_rows = []; table.find('tbody').find_all('tr')
EnterBody ==
    /\ pc = "body"
    /\ IF html.tbody
       THEN pc' = "row" /\ tr' = 1 /\ exc' = exc
       ELSE pc' = "raised" /\ tr' = tr /\ exc' = "AttributeError"
    /\ data_rows' = <<>>
    /\ UNCHANGED <<html, header_row, headers, result, cellVars, batchVars>>

\* lines 137-158: one iteration of the loop over the body rows
BodyRow ==
    /\ pc = "row"
    /\ tr <= Len(html.body_rows)
    /\ LET cells == find_all(html.body_rows[tr], {"td"})
       IN  data_rows' =
             IF <<"tbody", tr>> = header_row THEN data_rows
             ELSE IF ~row_kept(cells, headers) THEN data_rows
             ELSE Append(data_rows,
                         row_dict(headers, cells, Min(Len(headers), Len(cells))))
    /\ tr' = tr + 1
    /\ UNCHANGED <<html, pc, header_row, headers, exc, result, cellVars, batchVars>>

\* lines 160-163
Return ==
    /\ pc = "row"
    /\ tr > Len(html.body_rows)
    /\ result' = [ok |-> TRUE, columns |-> headers, data |-> data_rows]
    /\ pc' = "returned"
    /\ UNCHANGED <<html, header_row, headers, data_rows, tr, exc, cellVars, batchVars>>

NextTable == FindTable \/ SelectHeader \/ EnterBody \/ BodyRow \/ Return

SpecTable == InitTable /\ [][NextTable]_vars


\* --------------------------------------------------------- the batch loop
cnt_limit == 25

\* what the loop reads of a record: whether openfda.generic_name is there,
\* whether id is there, whether adverse_reactions_table, adverse_reactions
\* and openfda.route are all there, whether the extraction call returns a
\* dictionary or raises, and whether openfda.spl_set_id is there
Labels ==
    { [generic_name |-> TRUE,  id |-> TRUE,  fields |-> TRUE,  llm |-> "ok",     openfda_ids |-> TRUE],
      [generic_name |-> FALSE, id |-> TRUE,  fields |-> TRUE,  llm |-> "ok",     openfda_ids |-> TRUE],
      [generic_name |-> FALSE, id |-> FALSE, fields |-> TRUE,  llm |-> "ok",     openfda_ids |-> TRUE],
      [generic_name |-> TRUE,  id |-> TRUE,  fields |-> FALSE, llm |-> "ok",     openfda_ids |-> TRUE],
      [generic_name |-> TRUE,  id |-> TRUE,  fields |-> TRUE,  llm |-> "raises", openfda_ids |-> TRUE],
      [generic_name |-> TRUE,  id |-> TRUE,  fields |-> TRUE,  llm |-> "ok",     openfda_ids |-> FALSE] }

\* the dictionary appended for a record (lines 203-205)
ae_dict(l) == [drug_spl_set_id |-> "set-id", drug_route |-> "route"]

InitBatch ==
    /\ file = 1 /\ drug_labels = 0 /\ k = 0 /\ cnt = 0 /\ drug_info = <<>>
    /\ drug_label = NoLabel /\ bpc = "file" /\ stopped = FALSE
    /\ written = <<>>
    /\ CellIdle /\ TableIdle

\* lines 175-183: the next file is loaded, then the limit is tested; when
\* data_files is exhausted the loop ends
OpenFile ==
    /\ bpc = "file"
    /\ IF file > NumFiles
       THEN /\ bpc' = "write"
            /\ UNCHANGED <<drug_labels, k, stopped>>
       ELSE \E n \in 0..MaxRecords :
            /\ drug_labels' = n
            /\ IF cnt > cnt_limit
               THEN /\ stopped' = TRUE /\ bpc' = "write" /\ k' = k
               ELSE /\ stopped' = stopped /\ bpc' = "record" /\ k' = 1
    /\ UNCHANGED <<file, cnt, drug_info, drug_label, written, cellVars, tableVars>>

\* lines 185-195: next record of the file, limit test, generic name test
NextRecord ==
    /\ bpc = "record"
    /\ IF k > drug_labels
       THEN /\ file' = file + 1 /\ bpc' = "file"
            /\ UNCHANGED <<k, drug_label, stopped>>
       ELSE IF cnt > cnt_limit
       THEN /\ stopped' = TRUE
            /\ file' = file + 1 /\ bpc' = "file"
            /\ UNCHANGED <<k, drug_label>>
       ELSE \E l \in Labels :
            /\ drug_label' = l
            /\ IF l.generic_name
               THEN bpc' = "extract" /\ k' = k
               ELSE IF l.id
               THEN bpc' = "record" /\ k' = k + 1
               ELSE bpc' = "crashed" /\ k' = k
            /\ UNCHANGED <<file, stopped>>
    /\ UNCHANGED <<drug_labels, cnt, drug_info, written, cellVars, tableVars>>

\* lines 196-214: the record with a generic name
ExtractRecord ==
    /\ bpc = "extract"
    /\ IF ~drug_label.fields
       THEN /\ bpc' = "record" /\ k' = k + 1
            /\ UNCHANGED <<cnt, drug_info>>
       ELSE IF drug_label.llm = "raises" \/ ~drug_label.openfda_ids
       THEN /\ bpc' = "crashed"
            /\ UNCHANGED <<k, cnt, drug_info>>
       ELSE /\ cnt' = cnt + 1
            /\ drug_info' = Append(drug_info, ae_dict(drug_label))
            /\ bpc' = "record" /\ k' = k + 1
    /\ UNCHANGED <<file, drug_labels, drug_label, stopped, written, cellVars, tableVars>>

\* lines 216-220
WriteOutput ==
    /\ bpc = "write"
    /\ written' = drug_info
    /\ bpc' = "done"
    /\ UNCHANGED <<file, drug_labels, k, cnt, drug_info, drug_label, stopped, cellVars, tableVars>>

NextBatch == OpenFile \/ NextRecord \/ ExtractRecord \/ WriteOutput

SpecBatch == InitBatch /\ [][NextBatch]_vars


\* ================================================================ properties

\* ---- declarative reading of the normalisation grammar
AllIn(s, a, b, P(_)) == \A i \in a..b : P(s[i])

\* t is s without its leading and trailing whitespace
IsStripOf(t, s) ==
    \E a \in 0..Len(s), b \in 0..Len(s) :
        /\ a <= b
        /\ t = SubSeq(s, a + 1, b)
        /\ AllIn(s, 1, a, IsSpace)
        /\ AllIn(s, b + 1, Len(s), IsSpace)
        /\ (t # <<>> => ~IsSpace(t[1]) /\ ~IsSpace(t[Len(t)]))

Stripped(s) ==
    CHOOSE t \in {SubSeq(s, a, b) : a \in 1..Len(s) + 1, b \in 0..Len(s)} : IsStripOf(t, s)

\* t is: optional '<', digits, optional '.' digits, optional (whitespace '%');
\* the numeral is t[a+1..c]
Numeral(t, a, c) ==
    /\ a \in {0, 1} /\ c \in 1..Len(t)
    /\ (a = 1 => t[1] = "<")
    /\ \E b \in a + 1..c :
        /\ AllIn(t, a + 1, b, IsDigit)
        /\ \/ c = b
           \/ /\ c >= b + 2 /\ t[b + 1] = "."
              /\ AllIn(t, b + 2, c, IsDigit)
    /\ \/ c = Len(t)
       \/ /\ c < Len(t) /\ t[Len(t)] = "%"
          /\ AllIn(t, c + 1, Len(t) - 1, IsSpace)

InGrammar(t) == \E a \in {0, 1}, c \in 1..Len(t) : Numeral(t, a, c)

\* f is the decimal value written by the numeral g (digits, at most one '.')
IsValueOf(f, g) ==
    LET ds == SelectSeq(g, IsDigit)
        fl == Cardinality({i \in 1..Len(g) : \E j \in 1..i - 1 : g[j] = "."})
        RECURSIVE Horner(_, _)
        Horner(acc, i) == IF i > Len(ds) THEN acc ELSE Horner(10 * acc + DigitVal(ds[i]), i + 1)
    IN  f.n * Pow10(fl) = Horner(0, 1) * f.d

\* C1: every numeric value produced for a cell lies in [0.0, 100.0]
C1_NumberInRange ==
    value.kind = "Number" => (0 <= value.n /\ value.n <= 100 * value.d)

\* C7: the result is a number exactly when the whole stripped text is in the
\* grammar, the number is the literal decimal value, and any other text is
\* returned stripped and unchanged
C7_WholeStringMatch ==
    cpc = "done" =>
        LET t == Stripped(cell)
        IN  IF InGrammar(t)
            THEN /\ value.kind = "Number"
                 /\ \A a \in {0, 1}, c \in 1..Len(t) :
                        Numeral(t, a, c) => IsValueOf(value, SubSeq(t, a + 1, c))
            ELSE value = Text(t)

C7_Witness ==
    /\ cpc = "done"
    /\ cell = <<" ", "<", "5", "%">>
    /\ value = Number([n |-> 5, d |-> 1])

\* C8: for a numeral x of the grammar (written without the marker), the text
\* '<' x normalises to the same number as x
C8_LessThanIgnored ==
    cpc = "done" =>
        /\ (text # <<>> /\ text[1] = "<" /\ InGrammar(Tail(text)) /\ Tail(text)[1] # "<")
              => (value.kind = "Number" /\ value = normalize(Tail(text)))
        /\ (InGrammar(text) /\ text[1] # "<")
              => (value.kind = "Number" /\ normalize(<<"<">> \o text) = value)

C8_Witness ==
    /\ cpc = "done"
    /\ text = <<"<", "1", " ", "%">>
    /\ value = Number([n |-> 1, d |-> 1])

\* ---- declarative reading of the table result
StrippedTexts(cs) == [i \in 1..Len(cs) |-> Stripped(cs[i].text)]

\* the members of a set of indices as an increasing sequence
Indices(S) ==
    [i \in 1..Cardinality(S) |->
        CHOOSE x \in S : Cardinality({y \in S : y < x}) = i - 1]

HeadHasRow(h) == h.thead /\ Len(h.head_rows) >= 1
HeaderInBody(h) == ~HeadHasRow(h)

DataCells(row) == SelectSeq(row, LAMBDA c : c.tag = "td")

\* the record of a row: each header maps to the value of the last cell
\* under that header
RecordOf(hs, cells) ==
    [x \in {hs[j] : j \in 1..Len(hs)} |->
        LET js == {j \in 1..Len(hs) : hs[j] = x}
            j  == CHOOSE m \in js : \A o \in js : o <= m
        IN  normalize(cells[j].text)]

\* C2 as stated: one record for each body row, other than the header row,
\* that has exactly N cells, in order
C2_RowsWithNCells ==
    pc = "returned" =>
        LET N == Len(result.columns)
            Keep(r) == /\ ~(HeaderInBody(html) /\ r = 1)
                       /\ Len(html.body_rows[r]) = N
        IN  Len(result.data) =
              Len(Indices({r \in 1..Len(html.body_rows) : Keep(r)}))

\* C2 amended: one record for each body row, other than the header row, that
\* has exactly N data (td) cells, in source order, built from those cells
C2_RowsWithNDataCells ==
    pc = "returned" =>
        LET N == Len(result.columns)
            Keep(r) == /\ ~(HeaderInBody(html) /\ r = 1)
                       /\ Len(DataCells(html.body_rows[r])) = N
            idx == Indices({r \in 1..Len(html.body_rows) : Keep(r)})
        IN  result.data =
              [i \in 1..Len(idx) |->
                  RecordOf(result.columns, DataCells(html.body_rows[idx[i]]))]

C2_Witness ==
    /\ pc = "returned"
    /\ Len(result.columns) = 1
    /\ Len(html.body_rows) = 2
    /\ Len(DataCells(html.body_rows[1])) = 2
    /\ Len(result.data) = 1

\* C3: every record has as many keys as there are columns
C3_KeyCount ==
    pc = "returned" =>
        \A i \in 1..Len(result.data) :
            Cardinality(DOMAIN result.data[i]) = Len(result.columns)

C5_TableNeverRaises ==
    html.table => (pc # "raised" /\ exc = "none")

\* C6: without a table element the call raises the no-table error and
\* produces no result, partial or whole
C6_NoTableRaises ==
    ~html.table =>
        /\ pc \in {"start", "raised"}
        /\ (pc = "raised" => exc = "ValueError")
        /\ result = NoResult /\ headers = <<>> /\ data_rows = <<>>

C6_Witness ==
    ~html.table /\ pc = "raised" /\ exc = "ValueError"

\* C9: a record whose processing fails is skipped and the accumulated
\* results are still written: the run never ends without the output file
C9_FailureSkipped ==
    bpc \in {"done", "crashed"} => (bpc = "done" /\ written = drug_info)

\* C10: drug_info never holds more than cnt_limit records, and when the
\* limit message is printed it holds exactly cnt_limit
C10_AtMostLimit ==
    /\ Len(drug_info) <= cnt_limit
    /\ (stopped => Len(drug_info) = cnt_limit)

====
